---- MODULE Spec2Model ----
(***************************************************************************)
(* The PRxWidget component (src/PRxWidget.tsx): its React state, the       *)
(* mount-time location fetch, the script it injects into the embedded      *)
(* document, and its handlers for the WebView's messages, navigation       *)
(* requests and load-completion signal.                                    *)
(***************************************************************************)
EXTENDS Integers, Sequences, FiniteSets, TLC

VARIABLES
    loading,            \* useState(true)
    height,             \* useState(600): a JavaScript value
    userLocation,       \* useState(null): null or {lat, long}
    permissionStatus,   \* requestForegroundPermissionsAsync: pending or its outcome
    positionFetch,      \* getCurrentPositionAsync: notStarted, pending or its outcome
    injectedJavaScript, \* the injectedJavaScript prop of the latest render
    docState,           \* the embedded document: loading or loaded
    docScript,          \* the injected script that has run in the embedded document
    docResult,          \* what the document's last window.open call or click came to
    event,              \* the WebView event being delivered to the component
    shouldStart,        \* the last value returned by handleNavigationRequest
    openRequests,       \* Linking.openURL calls the platform has not answered yet
    errorReported,      \* console.error has been called by an openURL .catch
    loadEndSeen,        \* history: onLoadEnd has run at least once
    resizeSeen          \* history: a message with type 'resize' has been handled

vars == <<loading, height, userLocation, permissionStatus, positionFetch,
          injectedJavaScript, docState, docScript, docResult, event,
          shouldStart, openRequests, errorReported, loadEndSeen, resizeSeen>>

\* Linking.openURL calls outstanding at one time.
MaxOpens == 1

FallbackHeight == 600
Accuracy == 100

(***************************************************************************)
(* JavaScript values that occur in message fields, and their truthiness.   *)
(***************************************************************************)
Undefined == [t |-> "undefined", n |-> 0, s |-> ""]
Num(n) == [t |-> "number", n |-> n, s |-> ""]
Str(s) == [t |-> "string", n |-> 0, s |-> s]

Truthy(v) ==
    CASE v.t = "undefined" -> FALSE
      [] v.t = "number" -> v.n # 0
      [] v.t = "string" -> v.s # ""

startsWith(s, p) == Len(p) <= Len(s) /\ SubSeq(s, 1, Len(p)) = p

includes(s, p) == \E i \in 1..(Len(s) - Len(p) + 1) : SubSeq(s, i, i + Len(p) - 1) = p

(***************************************************************************)
(* Structured data.  A payload is either text JSON.parse rejects or the    *)
(* text of a JSON value: null, a number, or an object with the fields      *)
(* type, height and url (a missing field reads as undefined).              *)
(***************************************************************************)
Obj(type, h, url) == [kind |-> "object", type |-> type, height |-> h, url |-> url]
JsonNull == [kind |-> "null", type |-> Undefined, height |-> Undefined, url |-> Undefined]
JsonNumber == [kind |-> "number", type |-> Undefined, height |-> Undefined, url |-> Undefined]

JSONstringify(v) == [wellFormed |-> TRUE, value |-> v]
NotJson == [wellFormed |-> FALSE, value |-> JsonNull]

\* JSON.parse(text): the value, or a SyntaxError.
JSONparse(data) ==
    IF data.wellFormed THEN [threw |-> FALSE, value |-> data.value]
                       ELSE [threw |-> TRUE, value |-> JsonNull]

\* data.<field>: a TypeError on null, undefined on a number.
Get(d, field) ==
    CASE d.kind = "null" -> [threw |-> TRUE, value |-> Undefined]
      [] d.kind = "number" -> [threw |-> FALSE, value |-> Undefined]
      [] d.kind = "object" -> [threw |-> FALSE, value |-> d[field]]

(***************************************************************************)
(* The location fetch of the mount effect.                                 *)
(***************************************************************************)
NoLocation == [present |-> FALSE, lat |-> 0, long |-> 0]

Coordinates == {[latitude |-> 37, longitude |-> -122], [latitude |-> 0, longitude |-> 0]}

PermissionStatuses == {"granted", "denied", "undetermined"}

\* Mutant: the position is fetched whatever the permission's status.
FetchAlways(status) == TRUE

\* if (status === 'granted')
FetchAfter(status) == status = "granted"

\* setUserLocation({lat: location.coords.latitude, long: location.coords.longitude})
setUserLocation(coords) == [present |-> TRUE, lat |-> coords.latitude, long |-> coords.longitude]

(***************************************************************************)
(* The injected script, as the overrides it installs.                      *)
(***************************************************************************)
getInjectedJavaScript(loc) ==
    [ran |-> TRUE,
     locationOverride |-> loc.present,
     nativeCoords |-> IF loc.present
                      THEN [latitude |-> loc.lat, longitude |-> loc.long]
                      ELSE [latitude |-> 0, longitude |-> 0]]

NoScript == [ran |-> FALSE, locationOverride |-> FALSE,
             nativeCoords |-> [latitude |-> 0, longitude |-> 0]]

\* window.ReactNativeWebView: present in a WebView that is given onMessage.
ReactNativeWebView == TRUE

\* navigator.geolocation.getCurrentPosition(success, error, options) in the
\* document: the override's success callback, or the document's own geolocation.
getCurrentPosition(script) ==
    IF script.ran /\ script.locationOverride
    THEN [callback |-> "success",
          latitude |-> script.nativeCoords.latitude,
          longitude |-> script.nativeCoords.longitude,
          accuracy |-> Accuracy]
    ELSE [callback |-> "document", latitude |-> 0, longitude |-> 0, accuracy |-> 0]

NoEvent == [kind |-> "none", data |-> NotJson, url |-> ""]
MessageEvent(data) == [kind |-> "message", data |-> data, url |-> ""]
NavigationEvent(url) == [kind |-> "navigation", data |-> NotJson, url |-> url]
LoadEndEvent == [kind |-> "loadEnd", data |-> NotJson, url |-> ""]

Init ==
    /\ loading = TRUE
    /\ height = Num(FallbackHeight)
    /\ userLocation = NoLocation
    /\ permissionStatus = "pending"
    /\ positionFetch = "notStarted"
    /\ injectedJavaScript = getInjectedJavaScript(NoLocation)
    /\ docState = "loading"
    /\ docScript = NoScript
    /\ docResult = "none"
    /\ event = NoEvent
    /\ shouldStart = "none"
    /\ openRequests = <<>>
    /\ errorReported = FALSE
    /\ loadEndSeen = FALSE
    /\ resizeSeen = FALSE

(***************************************************************************)
(* handleMessage: JSON.parse and both property reads sit inside the try,   *)
(* so a SyntaxError or TypeError leaves everything as it was.              *)
(***************************************************************************)
\* Mutant: the reported height is clamped to a minimum of 0.
handleMessageHeightClamped(data, h) ==
    LET p == JSONparse(data)
        type == Get(p.value, "type")
        newHeight == Get(p.value, "height")
    IN  IF p.threw \/ type.threw THEN h
        ELSE IF type.value = Str("resize") /\ Truthy(newHeight.value)
             THEN IF newHeight.value.t = "number" /\ newHeight.value.n < 0
                  THEN Num(0)
                  ELSE newHeight.value
             ELSE h

\* Mutant: the discriminator is not tested before the height is taken.
handleMessageHeightAnyType(data, h) ==
    LET p == JSONparse(data)
        type == Get(p.value, "type")
        newHeight == Get(p.value, "height")
    IN  IF p.threw \/ type.threw THEN h
        ELSE IF Truthy(newHeight.value) THEN newHeight.value ELSE h

\* if (data.type === 'resize' && data.height) setHeight(data.height)
handleMessageHeight(data, h) ==
    LET p == JSONparse(data)
        type == Get(p.value, "type")
        newHeight == Get(p.value, "height")
    IN  IF p.threw \/ type.threw THEN h
        ELSE IF type.value = Str("resize") /\ Truthy(newHeight.value)
             THEN newHeight.value
             ELSE h

\* Mutant: the URL is opened a second time.
handleMessageOpensTwice(data) ==
    LET p == JSONparse(data)
        type == Get(p.value, "type")
        url == Get(p.value, "url")
    IN  IF p.threw \/ type.threw THEN <<>>
        ELSE IF type.value = Str("external_link") /\ Truthy(url.value)
             THEN <<url.value, url.value>>
             ELSE <<>>

\* if (data.type === 'external_link' && data.url) Linking.openURL(data.url)
handleMessageOpens(data) ==
    LET p == JSONparse(data)
        type == Get(p.value, "type")
        url == Get(p.value, "url")
    IN  IF p.threw \/ type.threw THEN <<>>
        ELSE IF type.value = Str("external_link") /\ Truthy(url.value)
             THEN <<url.value>>
             ELSE <<>>

\* The discriminator of a payload, for the history variable resizeSeen.
TypeOf(data) ==
    IF data.wellFormed /\ data.value.kind = "object" THEN data.value.type ELSE Undefined

onMessage ==
    /\ event.kind = "message"
    /\ height' = handleMessageHeight(event.data, height)
    /\ openRequests' = openRequests \o handleMessageOpens(event.data)
    /\ resizeSeen' = (resizeSeen \/ TypeOf(event.data) = Str("resize"))
    /\ event' = NoEvent
    /\ UNCHANGED <<loading, userLocation, permissionStatus, positionFetch,
                   injectedJavaScript, docState, docScript, docResult,
                   shouldStart, errorReported, loadEndSeen>>

(***************************************************************************)
(* handleNavigationRequest                                                 *)
(***************************************************************************)
NavigationAllowed(url) ==
    \/ url = "about:blank"
    \/ startsWith(url, "data:")
    \/ includes(url, "widget.prxengage.com")
    \/ includes(url, "api.prxengage.com")
    \/ includes(url, "api-staging.prxengage.com")

handleNavigationRequest(url) ==
    IF NavigationAllowed(url) THEN [ret |-> TRUE, opens |-> <<>>]
    ELSE IF startsWith(url, "http") THEN [ret |-> FALSE, opens |-> <<Str(url)>>]
    ELSE [ret |-> TRUE, opens |-> <<>>]

\* The WebView asks before each navigation of the document; on true it loads
\* the destination, a new document in which no injected script has run yet.
onShouldStartLoadWithRequest ==
    /\ event.kind = "navigation"
    /\ LET r == handleNavigationRequest(event.url)
       IN  /\ shouldStart' = IF r.ret THEN "true" ELSE "false"
           /\ openRequests' = openRequests \o r.opens
           /\ docState' = IF r.ret THEN "loading" ELSE docState
           /\ docScript' = IF r.ret THEN NoScript ELSE docScript
    /\ event' = NoEvent
    /\ UNCHANGED <<loading, height, userLocation, permissionStatus, positionFetch,
                   injectedJavaScript, docResult, errorReported, loadEndSeen,
                   resizeSeen>>

(***************************************************************************)
(* onLoadEnd={() => setLoading(false)}                                     *)
(***************************************************************************)
\* Mutant: the load's end is handled only once the location fetch has ended.
LoadEndAfterLocation ==
    event.kind = "loadEnd" /\ permissionStatus # "pending" /\ positionFetch # "pending"

LoadEndDelivered == event.kind = "loadEnd"

\* Mutant: the flag is toggled.
onLoadEndToggles(l) == ~l

onLoadEndLoading(l) == FALSE

onLoadEnd ==
    /\ LoadEndDelivered
    /\ loading' = onLoadEndLoading(loading)
    /\ loadEndSeen' = TRUE
    /\ event' = NoEvent
    /\ UNCHANGED <<height, userLocation, permissionStatus, positionFetch,
                   injectedJavaScript, docState, docScript, docResult,
                   shouldStart, openRequests, errorReported, resizeSeen>>

(***************************************************************************)
(* The mount effect: permission, then one position fix.                    *)
(***************************************************************************)
PermissionResolved(status) ==
    /\ permissionStatus = "pending"
    /\ permissionStatus' = status
    /\ positionFetch' = IF FetchAfter(status) THEN "pending" ELSE "notStarted"
    /\ UNCHANGED <<loading, height, userLocation, injectedJavaScript, docState,
                   docScript, docResult, event, shouldStart, openRequests,
                   errorReported, loadEndSeen, resizeSeen>>

\* requestForegroundPermissionsAsync rejects: the catch logs and ends the effect.
PermissionRejected ==
    /\ permissionStatus = "pending"
    /\ permissionStatus' = "failed"
    /\ UNCHANGED <<loading, height, userLocation, positionFetch, injectedJavaScript,
                   docState, docScript, docResult, event, shouldStart, openRequests,
                   errorReported, loadEndSeen, resizeSeen>>

\* The fix arrives: the state is set and the component renders again, which
\* passes the WebView a new injectedJavaScript prop.
PositionResolved(coords) ==
    /\ positionFetch = "pending"
    /\ positionFetch' = "resolved"
    /\ userLocation' = setUserLocation(coords)
    /\ injectedJavaScript' = getInjectedJavaScript(userLocation')
    /\ UNCHANGED <<loading, height, permissionStatus, docState, docScript,
                   docResult, event, shouldStart, openRequests, errorReported,
                   loadEndSeen, resizeSeen>>

PositionRejected ==
    /\ positionFetch = "pending"
    /\ positionFetch' = "failed"
    /\ UNCHANGED <<loading, height, userLocation, permissionStatus,
                   injectedJavaScript, docState, docScript, docResult, event,
                   shouldStart, openRequests, errorReported, loadEndSeen,
                   resizeSeen>>

(***************************************************************************)
(* Linking.openURL(url).catch(err => console.error(...)): the platform     *)
(* answers each call once; a rejection is logged and nothing else.         *)
(***************************************************************************)
OpenURLResolved ==
    /\ openRequests # <<>>
    /\ openRequests' = Tail(openRequests)
    /\ UNCHANGED <<loading, height, userLocation, permissionStatus, positionFetch,
                   injectedJavaScript, docState, docScript, docResult, event,
                   shouldStart, errorReported, loadEndSeen, resizeSeen>>

OpenURLRejected ==
    /\ openRequests # <<>>
    /\ openRequests' = Tail(openRequests)
    /\ errorReported' = TRUE
    /\ UNCHANGED <<loading, height, userLocation, permissionStatus, positionFetch,
                   injectedJavaScript, docState, docScript, docResult, event,
                   shouldStart, loadEndSeen, resizeSeen>>

(***************************************************************************)
(* The embedded document.  The WebView runs the injectedJavaScript prop it *)
(* holds when the document finishes loading, then signals the load's end.  *)
(***************************************************************************)
LoadFinished ==
    /\ docState = "loading"
    /\ event = NoEvent
    /\ docState' = "loaded"
    /\ docScript' = injectedJavaScript
    /\ event' = LoadEndEvent
    /\ UNCHANGED <<loading, height, userLocation, permissionStatus, positionFetch,
                   injectedJavaScript, docResult, shouldStart, openRequests,
                   errorReported, loadEndSeen, resizeSeen>>

\* Mutant: the message is posted and the call still falls through to the
\* original window.open.
windowOpenOverrideFallsThrough(url) ==
    IF Truthy(url) /\ ReactNativeWebView
    THEN [post |-> <<JSONstringify(Obj(Str("external_link"), Undefined, url))>>,
          result |-> "originalOpen"]
    ELSE [post |-> <<>>, result |-> "originalOpen"]

\* window.open = function(url, target, features) {...} of the injected script
windowOpenOverride(url) ==
    IF Truthy(url) /\ ReactNativeWebView
    THEN [post |-> <<JSONstringify(Obj(Str("external_link"), Undefined, url))>>,
          result |-> "suppressed"]
    ELSE [post |-> <<>>, result |-> "originalOpen"]

\* e.target.closest('a[target="_blank"]')
closest(el) == el.anchor /\ el.target = "_blank"

\* the capturing click listener of the injected script
clickListener(el) ==
    IF closest(el) /\ el.href # ""
    THEN [post |-> <<JSONstringify(Obj(Str("external_link"), Undefined, Str(el.href)))>>,
          result |-> "prevented"]
    ELSE [post |-> <<>>, result |-> "defaultAction"]

Max(a, b) == IF a >= b THEN a ELSE b

\* reportHeight() of the injected script
reportHeight(bodyScrollHeight, rootScrollHeight) ==
    IF ReactNativeWebView
    THEN <<JSONstringify(Obj(Str("resize"),
                             Num(Max(bodyScrollHeight, rootScrollHeight)), Undefined))>>
    ELSE <<>>

ExampleUrl == "https://example.com/x"

OpenArguments == {Undefined, Str(""), Str(ExampleUrl)}

ClickTargets ==
    [anchor : BOOLEAN, target : {"_blank", "_self", "popup"}, href : {"", ExampleUrl}]

ScrollHeights == {0, 842}

Post(msgs) == IF msgs = <<>> THEN event ELSE MessageEvent(msgs[1])

\* Code of the document calls window.open(url).
DocWindowOpen(url) ==
    /\ event = NoEvent
    /\ Len(openRequests) < MaxOpens
    /\ LET r == IF docScript.ran THEN windowOpenOverride(url)
                ELSE [post |-> <<>>, result |-> "originalOpen"]
       IN  /\ event' = Post(r.post)
           /\ docResult' = r.result
    /\ UNCHANGED <<loading, height, userLocation, permissionStatus, positionFetch,
                   injectedJavaScript, docState, docScript, shouldStart,
                   openRequests, errorReported, loadEndSeen, resizeSeen>>

\* The user clicks an element of the document.
DocClick(el) ==
    /\ event = NoEvent
    /\ Len(openRequests) < MaxOpens
    /\ LET r == IF docScript.ran THEN clickListener(el)
                ELSE [post |-> <<>>, result |-> "defaultAction"]
       IN  /\ event' = Post(r.post)
           /\ docResult' = r.result
    /\ UNCHANGED <<loading, height, userLocation, permissionStatus, positionFetch,
                   injectedJavaScript, docState, docScript, shouldStart,
                   openRequests, errorReported, loadEndSeen, resizeSeen>>

\* The ResizeObserver, the load listener or the interval calls reportHeight.
DocReportHeight(b, r) ==
    /\ event = NoEvent
    /\ docScript.ran
    /\ event' = Post(reportHeight(b, r))
    /\ UNCHANGED <<loading, height, userLocation, permissionStatus, positionFetch,
                   injectedJavaScript, docState, docScript, docResult, shouldStart,
                   openRequests, errorReported, loadEndSeen, resizeSeen>>

\* What the remote widget's own code may hand to postMessage.
ContentMessages ==
    {NotJson,
     JSONstringify(JsonNull),
     JSONstringify(JsonNumber),
     JSONstringify(Obj(Undefined, Num(842), Undefined)),
     JSONstringify(Obj(Str("scroll"), Num(842), Str(ExampleUrl))),
     JSONstringify(Obj(Str("resize"), Undefined, Undefined)),
     JSONstringify(Obj(Str("resize"), Str("tall"), Undefined)),
     JSONstringify(Obj(Str("resize"), Num(-1), Undefined)),
     JSONstringify(Obj(Str("external_link"), Undefined, Undefined)),
     JSONstringify(Obj(Str("external_link"), Undefined, Str("")))}

DocPostMessage(data) ==
    /\ event = NoEvent
    /\ Len(openRequests) < MaxOpens
    /\ event' = MessageEvent(data)
    /\ UNCHANGED <<loading, height, userLocation, permissionStatus, positionFetch,
                   injectedJavaScript, docState, docScript, docResult, shouldStart,
                   openRequests, errorReported, loadEndSeen, resizeSeen>>

NavigationUrls ==
    {"about:blank",
     "data:text/html,x",
     "https://widget.prxengage.com/asset.js",
     "https://api.prxengage.com/v1",
     "https://api-staging.prxengage.com/v1",
     "https://evil.example.com",
     "https://evil.example.com/?r=widget.prxengage.com",
     "mailto:a@b.example"}

\* The document starts a navigation; the WebView asks the component first.
DocNavigate(url) ==
    /\ event = NoEvent
    /\ Len(openRequests) < MaxOpens
    /\ event' = NavigationEvent(url)
    /\ UNCHANGED <<loading, height, userLocation, permissionStatus, positionFetch,
                   injectedJavaScript, docState, docScript, docResult, shouldStart,
                   openRequests, errorReported, loadEndSeen, resizeSeen>>

Next ==
    \/ onMessage
    \/ onShouldStartLoadWithRequest
    \/ onLoadEnd
    \/ \E status \in PermissionStatuses : PermissionResolved(status)
    \/ PermissionRejected
    \/ \E coords \in Coordinates : PositionResolved(coords)
    \/ PositionRejected
    \/ OpenURLResolved
    \/ OpenURLRejected
    \/ LoadFinished
    \/ \E url \in OpenArguments : DocWindowOpen(url)
    \/ \E el \in ClickTargets : DocClick(el)
    \/ \E b \in ScrollHeights, r \in ScrollHeights : DocReportHeight(b, r)
    \/ \E data \in ContentMessages : DocPostMessage(data)
    \/ \E url \in NavigationUrls : DocNavigate(url)

Spec == Init /\ [][Next]_vars

\* The WebView delivers an event it has raised: the handler runs.
FairSpec == Spec /\ WF_vars(onLoadEnd) /\ WF_vars(onMessage)
                 /\ WF_vars(onShouldStartLoadWithRequest)

(***************************************************************************)
(* Properties                                                              *)
(***************************************************************************)
ResizeWithNumber(data) ==
    /\ data.wellFormed
    /\ data.value.kind = "object"
    /\ data.value.type = Str("resize")
    /\ data.value.height.t = "number"

ExternalLinkWithUrl(data) ==
    /\ data.wellFormed
    /\ data.value.kind = "object"
    /\ data.value.type = Str("external_link")
    /\ data.value.url.t = "string"
    /\ data.value.url.s # ""

\* C1 as stated: handling a resize message whose height is any number h
\* leaves ContainerHeight equal to h.
C1_EveryHeightApplied ==
    [][(onMessage /\ ResizeWithNumber(event.data))
         => height' = event.data.value.height]_vars

\* C1, amended: handling a resize message whose height is a number h other
\* than 0 leaves ContainerHeight equal to exactly h, whatever the prior
\* state: no clamping, no debouncing.
C1_NonZeroHeightApplied ==
    [][(onMessage /\ ResizeWithNumber(event.data) /\ event.data.value.height.n # 0)
         => height' = event.data.value.height]_vars

C1_Witness == resizeSeen /\ height = Num(-1) /\ event = NoEvent

WebScheme(url) == startsWith(url, "http://") \/ startsWith(url, "https://")

TrustedHosts == {"widget.prxengage.com", "api.prxengage.com", "api-staging.prxengage.com"}

OnTrustedOrigin(url) ==
    \E scheme \in {"http://", "https://"}, host \in TrustedHosts :
        \/ url = scheme \o host
        \/ \E sep \in {"/", "?", "#", ":"} : startsWith(url, scheme \o host \o sep)

\* C2: a navigation request for a URL with a web scheme that is not on a
\* trusted origin is vetoed and issues exactly one external-open request
\* for that URL.
C2_UntrustedVetoed ==
    [][(onShouldStartLoadWithRequest /\ WebScheme(event.url)
          /\ ~OnTrustedOrigin(event.url))
         => /\ shouldStart' = "false"
            /\ openRequests' = Append(openRequests, Str(event.url))]_vars

\* C3: once a coordinate is stored, a getCurrentPosition call in the loaded
\* document gets the success callback with the stored latitude and
\* longitude and an accuracy.
C3_DocumentGetsStoredCoordinate ==
    (userLocation.present /\ docState = "loaded")
        => LET r == getCurrentPosition(docScript)
           IN  /\ r.callback = "success"
               /\ r.latitude = userLocation.lat
               /\ r.longitude = userLocation.long
               /\ r.accuracy = Accuracy

NonConforming(data) ==
    \/ ~data.wellFormed
    \/ data.value.kind # "object"
    \/ data.value.type \notin {Str("resize"), Str("external_link")}
    \/ data.value.type = Str("resize") /\ data.value.height.t # "number"
    \/ data.value.type = Str("external_link") /\ data.value.url.t = "undefined"

\* C4: handling a message that is not valid structured data or does not
\* conform to the message contract changes no state and opens nothing.
C4_NonConformingDiscarded ==
    [][(onMessage /\ NonConforming(event.data))
         => /\ UNCHANGED <<height, loading, userLocation>>
            /\ openRequests' = openRequests]_vars

\* C5: handling an external_link message with a non-empty url issues exactly
\* one external-open request, for that url, and changes nothing else; a
\* failure of the opener is reported, not retried, and changes no state.
C5_ExternalLinkOpensOnce ==
    [][/\ (onMessage /\ ExternalLinkWithUrl(event.data))
            => /\ openRequests' = Append(openRequests, event.data.value.url)
               /\ UNCHANGED <<height, loading, userLocation, injectedJavaScript,
                              docState, docScript, shouldStart>>
       /\ OpenURLRejected
            => /\ errorReported'
               /\ openRequests' = Tail(openRequests)
               /\ UNCHANGED <<height, loading, userLocation, injectedJavaScript,
                              docState, docScript, shouldStart, event>>]_vars

C5_Witness == openRequests = <<Str(ExampleUrl)>> /\ errorReported

\* C6: after a denial or a failure no coordinate is ever stored and neither
\* the script prop nor the script run in the document has the override; the
\* position fetch is attempted only after a grant; the script prop has the
\* override exactly when a coordinate is stored.
C6_NoOverrideWithoutCoordinate ==
    /\ (permissionStatus \in {"denied", "undetermined", "failed"}
          \/ positionFetch = "failed")
         => /\ ~userLocation.present
            /\ ~injectedJavaScript.locationOverride
            /\ ~docScript.locationOverride
    /\ positionFetch # "notStarted" => permissionStatus = "granted"
    /\ injectedJavaScript.locationOverride <=> userLocation.present
    /\ injectedJavaScript.locationOverride
         => /\ injectedJavaScript.nativeCoords.latitude = userLocation.lat
            /\ injectedJavaScript.nativeCoords.longitude = userLocation.long

C6_Witness == permissionStatus = "denied" /\ docScript.ran /\ docState = "loaded"

\* C7: LoadingFlag is true until the first load-completion signal is handled
\* and false in every state after it.
C7_LoadingUntilFirstLoadEnd == loading <=> ~loadEndSeen

C7_Witness == loadEndSeen /\ ~loading /\ event = LoadEndEvent /\ resizeSeen

LocationStep ==
    \/ \E status \in PermissionStatuses : PermissionResolved(status)
    \/ PermissionRejected
    \/ \E coords \in Coordinates : PositionResolved(coords)
    \/ PositionRejected

\* C8: a delivered load-completion signal always leads to LoadingFlag false,
\* whatever the location operation does, and no step of the location
\* operation changes LoadingFlag.
C8_LoadEndLeadsToReady ==
    /\ (event.kind = "loadEnd") ~> ~loading
    /\ [][LocationStep => loading' = loading]_vars

C8_Witness == ~loading /\ permissionStatus = "pending"

\* C9: ContainerHeight is the fallback value until a resize message has been
\* handled, and only handling a resize message changes it.
C9_HeightChangedOnlyByResize ==
    /\ [](~resizeSeen => height = Num(FallbackHeight))
    /\ [][height' # height
            => (onMessage /\ TypeOf(event.data) = Str("resize"))]_vars

C9_Witness ==
    /\ height = Num(842)
    /\ ~loading
    /\ shouldStart # "none"
    /\ errorReported
    /\ userLocation.present

ExternalLinkEvent(e) ==
    e.kind = "message" /\ TypeOf(e.data) = Str("external_link")

\* C10 as stated: with the injected script run, every window.open call,
\* whatever its argument, and every click in a link with target _blank
\* sends one external_link message and is suppressed.
C10_EveryOpenIntercepted ==
    [][docScript.ran
         => /\ \A url \in OpenArguments :
                 DocWindowOpen(url)
                   => ExternalLinkEvent(event') /\ docResult' = "suppressed"
            /\ \A el \in ClickTargets :
                 (DocClick(el) /\ closest(el) /\ el.href # "")
                   => ExternalLinkEvent(event') /\ docResult' = "prevented"]_vars

\* C10, amended: with the injected script run, a window.open call with a
\* non-empty url, and a click in a link with target _blank and a non-empty
\* href, sends exactly one external_link message with that URL and is
\* suppressed; a window.open call with an absent or empty url sends nothing
\* and goes to the original window.open.
C10_NonEmptyOpenIntercepted ==
    [][docScript.ran
         => /\ \A url \in OpenArguments :
                 DocWindowOpen(url)
                   => IF Truthy(url)
                      THEN /\ event' = MessageEvent(JSONstringify(
                                           Obj(Str("external_link"), Undefined, url)))
                           /\ docResult' = "suppressed"
                      ELSE event' = event /\ docResult' = "originalOpen"
            /\ \A el \in ClickTargets :
                 (DocClick(el) /\ closest(el) /\ el.href # "")
                   => /\ event' = MessageEvent(JSONstringify(
                                      Obj(Str("external_link"), Undefined, Str(el.href))))
                      /\ docResult' = "prevented"]_vars

C10_Witness == docScript.ran /\ docResult = "suppressed" /\ ExternalLinkEvent(event)

====
